---- MODULE Spec2Model ----
(***************************************************************************)
(* A model of newsletter.py: the feed fetcher and normaliser (fetch_rss),  *)
(* the mortgage-rate resolver (fetch_mortgage_rate), the relevance filter  *)
(* (filter_articles), the digest assembler (gather_news) and the run       *)
(* (run, send_email).                                                      *)
(*                                                                         *)
(* A Python str is a sequence of one-character strings, so that slicing,   *)
(* substring search, case folding and the regular expressions of the       *)
(* source are computed and not assumed.  A Python value that may be absent *)
(* (an XML element, a JSON key, a return value not yet produced) is a      *)
(* sequence of length 0 or 1.                                              *)
(***************************************************************************)
EXTENDS Integers, Sequences, FiniteSets, TLC

VARIABLES
    pc,                     \* the position of the program
    resp, items,            \* fetch_rss: the response of the feed, the list returned
    fArticles, fKeywords, fMax, fOut,   \* filter_articles: arguments and result
    primIn, secIn,          \* fetch_mortgage_rate: what the two sources answered
    tiers, mortgage,        \* the tiers attempted in order, the record returned
    feed,                   \* gather_news: the index of the next feed of the running loop
    feedLog,                \* the feeds fetched, in order, each with what it answered
    raleigh_articles, construction_articles, materials_articles, mortgage_articles,
    news,                   \* the digest returned by gather_news
    sendLog,                \* send_email: the outcome of every delivery attempt
    raised                  \* the exception that left run, if any

vars == << pc, resp, items, fArticles, fKeywords, fMax, fOut, primIn, secIn, tiers,
           mortgage, feed, feedLog, raleigh_articles, construction_articles,
           materials_articles, mortgage_articles, news, sendLog, raised >>

feedVars   == << resp, items >>
filterVars == << fArticles, fKeywords, fMax, fOut >>
rateVars   == << primIn, secIn, tiers, mortgage >>
gatherVars == << feed, feedLog, raleigh_articles, construction_articles,
                 materials_articles, mortgage_articles, news >>
sendVars   == << sendLog, raised >>

-----------------------------------------------------------------------------
(* Python str and list primitives *)

Min(a, b) == IF a < b THEN a ELSE b
Max(a, b) == IF a > b THEN a ELSE b

\* s[:n] of a str or list: a negative n counts from the end.
PySliceTo(s, n) ==
    IF n >= 0 THEN SubSeq(s, 1, Min(n, Len(s)))
    ELSE SubSeq(s, 1, Max(Len(s) + n, 0))

\* s[n:] for n >= 0.
PySliceFrom(s, n) == SubSeq(s, Min(n, Len(s)) + 1, Len(s))

\* s.startswith(p), as the regular expressions below match a literal.
StartsWith(s, p) == Len(p) <= Len(s) /\ SubSeq(s, 1, Len(p)) = p

\* k in text: substring containment; the empty string is in every string.
Contains(text, k) ==
    \E i \in 1..(Len(text) - Len(k) + 1) :
        \A j \in 1..Len(k) : text[i + j - 1] = k[j]

UpperCase == << "A", "B", "C", "D", "E", "F", "G", "H", "I", "J", "K", "L", "M",
                "N", "O", "P", "Q", "R", "S", "T", "U", "V", "W", "X", "Y", "Z" >>
LowerCase == << "a", "b", "c", "d", "e", "f", "g", "h", "i", "j", "k", "l", "m",
                "n", "o", "p", "q", "r", "s", "t", "u", "v", "w", "x", "y", "z" >>

\* str.lower() on the ASCII range.
UpperToLower ==
    [ c \in { UpperCase[i] : i \in 1..26 } |->
        LowerCase[CHOOSE i \in 1..26 : UpperCase[i] = c] ]
LowerChar(c) == IF c \in DOMAIN UpperToLower THEN UpperToLower[c] ELSE c
Lower(s) == [i \in 1..Len(s) |-> LowerChar(s[i])]

IsSpace(c) == c = " "

\* s.find(c) + 1: the position of the first c in s, 0 when there is none.
FirstIndex(s, c) ==
    IF \E i \in 1..Len(s) : s[i] = c
    THEN CHOOSE i \in 1..Len(s) : s[i] = c /\ \A j \in 1..(i - 1) : s[j] # c
    ELSE 0

\* str.strip(): leading and trailing whitespace removed.
Strip(s) ==
    LET kept == { i \in 1..Len(s) : ~IsSpace(s[i]) }
    IN  IF kept = { } THEN << >>
        ELSE SubSeq(s, CHOOSE i \in kept : \A j \in kept : i <= j,
                       CHOOSE i \in kept : \A j \in kept : i >= j)

\* n copies of the character c.
Repeat(c, n) == [i \in 1..n |-> c]

-----------------------------------------------------------------------------
(* Configuration *)

\* RSS_FEEDS keyword lists, one character per element.
RALEIGH_KEYWORDS ==
    << <<"r", "a", "l", "e", "i", "g", "h">>,
       <<"d", "u", "r", "h", "a", "m">>,
       <<"c", "h", "a", "p", "e", "l", " ", "h", "i", "l", "l">>,
       <<"w", "a", "k", "e", " ", "c", "o", "u", "n", "t", "y">>,
       <<"t", "r", "i", "a", "n", "g", "l", "e">>,
       <<"c", "a", "r", "y">>,
       <<"a", "p", "e", "x">>,
       <<"m", "o", "r", "r", "i", "s", "v", "i", "l", "l", "e">>,
       <<"h", "o", "l", "l", "y", " ", "s", "p", "r", "i", "n", "g", "s">>,
       <<"f", "u", "q", "u", "a", "y">>,
       <<"d", "o", "w", "n", "t", "o", "w", "n">>,
       <<"n", "o", "r", "t", "h", " ", "c", "a", "r", "o", "l", "i", "n", "a">>,
       <<"n", "c", " ">>,
       <<" ", "n", "c", ",">> >>

MORTGAGE_KEYWORDS ==
    << <<"m", "o", "r", "t", "g", "a", "g", "e">>,
       <<"3", "0", "-", "y", "e", "a", "r">>,
       <<"i", "n", "t", "e", "r", "e", "s", "t", " ", "r", "a", "t", "e">>,
       <<"f", "e", "d">>,
       <<"f", "e", "d", "e", "r", "a", "l", " ", "r", "e", "s", "e", "r", "v", "e">>,
       <<"h", "o", "u", "s", "i", "n", "g", " ", "m", "a", "r", "k", "e", "t">>,
       <<"h", "o", "m", "e", " ", "p", "r", "i", "c", "e">>,
       <<"r", "e", "f", "i", "n", "a", "n", "c", "e">> >>

MATERIAL_KEYWORDS ==
    << <<"l", "u", "m", "b", "e", "r">>,
       <<"w", "o", "o", "d">>,
       <<"s", "t", "e", "e", "l">>,
       <<"c", "o", "n", "c", "r", "e", "t", "e">>,
       <<"c", "o", "p", "p", "e", "r">>,
       <<"m", "a", "t", "e", "r", "i", "a", "l">>,
       <<"s", "u", "p", "p", "l", "y", " ", "c", "h", "a", "i", "n">>,
       <<"t", "a", "r", "i", "f", "f">>,
       <<"p", "r", "i", "c", "e", " ", "i", "n", "c", "r", "e", "a", "s", "e">>,
       <<"c", "o", "n", "s", "t", "r", "u", "c", "t", "i", "o", "n", " ", "c", "o", "s", "t">>,
       <<"f", "r", "a", "m", "i", "n", "g">>,
       <<"d", "r", "y", "w", "a", "l", "l">>,
       <<"r", "o", "o", "f", "i", "n", "g">>,
       <<"i", "n", "s", "u", "l", "a", "t", "i", "o", "n">> >>

\* The literal list added to MATERIAL_KEYWORDS for the construction section.
HOUSING_KEYWORDS ==
    << <<"h", "o", "m", "e">>,
       <<"b", "u", "i", "l", "d">>,
       <<"p", "e", "r", "m", "i", "t">>,
       <<"h", "o", "u", "s", "i", "n", "g">> >>

-----------------------------------------------------------------------------
(* fetch_rss: the feed fetcher and the format normaliser *)

\* The cap on the entries read from one document and on the summary length.
ENTRY_CAP == 8
SUMMARY_CAP == 220
RSS_DATE_LEN == 16
ATOM_DATE_LEN == 10

\* html.unescape, on texts over the alphabet {<, >, &, l, t, b, ;, space}.  The
\* character references formed of these characters are "&lt;", "&lt" (which needs
\* no semicolon and may be a prefix of a longer name) and "&ll;" (the much-less-than
\* sign, written "LL" here); every other "&" is left as it is.
RECURSIVE unescape(_)
unescape(s) ==
    LET amp  == FirstIndex(s, "&")
        rest == PySliceFrom(s, amp - 1)
    IN  IF amp = 0 THEN s
        ELSE SubSeq(s, 1, amp - 1) \o
             ( IF StartsWith(rest, << "&", "l", "t", ";" >>)
                    THEN << "<" >> \o unescape(PySliceFrom(rest, 4))
               ELSE IF StartsWith(rest, << "&", "l", "t" >>)
                    THEN << "<" >> \o unescape(PySliceFrom(rest, 3))
               ELSE IF StartsWith(rest, << "&", "l", "l", ";" >>)
                    THEN << "LL" >> \o unescape(PySliceFrom(rest, 4))
               ELSE << "&" >> \o unescape(PySliceFrom(rest, 1)) )

\* re.sub(r"<[^>]+>", "", s): every "<", one or more characters other than ">",
\* then ">", is removed, leftmost first and without overlap.  A "<" is the start
\* of a match when the first ">" after it is not the next character.
RECURSIVE StripTags(_)
StripTags(s) ==
    LET open  == FirstIndex(s, "<")
        rest  == PySliceFrom(s, open)
        close == FirstIndex(rest, ">")
    IN  IF open = 0 THEN s
        ELSE IF close >= 2
             THEN SubSeq(s, 1, open - 1) \o StripTags(PySliceFrom(rest, close))
        ELSE SubSeq(s, 1, open) \o StripTags(rest)

\* get(tag) and getat(tag): el is the element's text when the element is there
\* (<< >> when it is not); an element without text gives "" like a missing one.
GetText(el) ==
    IF el # << >> /\ el[1] # << >> THEN unescape(Strip(el[1])) ELSE << >>

\* desc = re.sub(r"<[^>]+>", "", desc)[:220].strip()
Summary(desc) == Strip(PySliceTo(StripTags(desc), SUMMARY_CAP))

\* The article of one <item>.
NormalizeItem(item) ==
    [ title |-> GetText(item.title),
      link  |-> GetText(item.link),
      desc  |-> Summary(GetText(item.description)),
      date  |-> PySliceTo(GetText(item.pubDate), RSS_DATE_LEN) ]

\* getat("summary") or getat("content")
AtomDesc(entry) ==
    IF GetText(entry.summary) # << >> THEN GetText(entry.summary)
    ELSE GetText(entry.content)

\* The article of one Atom <entry>; href is the link element's attribute.
NormalizeEntry(entry) ==
    [ title |-> GetText(entry.title),
      link  |-> IF entry.href # << >> THEN entry.href[1] ELSE << >>,
      desc  |-> Summary(AtomDesc(entry)),
      date  |-> PySliceTo(GetText(entry.updated), ATOM_DATE_LEN) ]

\* for item in root.findall(".//item")[:8]
RssPass(doc) ==
    LET found == PySliceTo(doc.items, ENTRY_CAP)
    IN  [ i \in 1..Len(found) |-> NormalizeItem(found[i]) ]

\* for entry in root.findall(".//atom:entry", ns)[:8]
AtomPass(doc) ==
    LET found == PySliceTo(doc.entries, ENTRY_CAP)
    IN  [ i \in 1..Len(found) |-> NormalizeEntry(found[i]) ]

\* A variant without the "if not items" test: both passes always run.
BothPasses(doc) == RssPass(doc) \o AtomPass(doc)

\* The Atom pass runs only when the RSS pass left the list empty.
ParsedItems(doc) == IF RssPass(doc) = << >> THEN AtomPass(doc) ELSE RssPass(doc)

\* The body of the try block: urlopen or ET.fromstring raise, or the list is built.
FetchRssTry(r) ==
    IF r.status # "ok" THEN [ raises |-> TRUE, value |-> << >> ]
    ELSE [ raises |-> FALSE, value |-> ParsedItems(r) ]

\* A variant whose handler catches the transport errors only.
FetchRssCatchNetworkOnly(r) ==
    IF r.status = "net_fail" THEN [ raises |-> FALSE, value |-> << >> ]
    ELSE FetchRssTry(r)

\* except Exception: return [] -- whatever the try block raises, nothing leaves
\* fetch_rss and the empty list is returned.
fetch_rss(r) ==
    IF FetchRssTry(r).raises THEN [ raises |-> FALSE, value |-> << >> ]
    ELSE FetchRssTry(r)

-----------------------------------------------------------------------------
(* What a feed may answer *)

NetFail   == [ status |-> "net_fail",   items |-> << >>, entries |-> << >> ]
ParseFail == [ status |-> "parse_fail", items |-> << >>, entries |-> << >> ]
Document(its, ents) == [ status |-> "ok", items |-> its, entries |-> ents ]

\* The characters of the element texts.
Alpha == { "<", ">", "&", "l", "t", "b", ";", " " }

\* The longest element text enumerated in full, and the most entries of a document.
MaxTextLen == 3
MaxEntries == 9

RECURSIVE Texts(_)
Texts(n) ==
    IF n = 0 THEN { << >> }
    ELSE Texts(n - 1) \cup
         { << c >> \o s : c \in Alpha, s \in { x \in Texts(n - 1) : Len(x) = n - 1 } }

\* Texts around the summary cap: a run of "b" between a short head and tail.
Affixes == { << >>, << " " >>, << "<" >>, << ">" >>, << "<", "b", ">" >> }
LongTexts ==
    { p \o Repeat("b", k) \o q :
        p \in Affixes, q \in Affixes, k \in (SUMMARY_CAP - 2)..(SUMMARY_CAP + 1) }
InputTexts == Texts(MaxTextLen) \cup LongTexts

\* An <item> whose description is t.
TextItem(t) ==
    [ title |-> << << "b" >> >>, link |-> << << "l" >> >>,
      description |-> << t >>, pubDate |-> << >> ]

\* Atom entries that carry t in <summary>, or in <content> behind a <summary>
\* that is missing, has no text, or is only whitespace.
TextEntries(t) ==
    { [ title |-> << << "t" >> >>, href |-> << << "l" >> >>,
        summary |-> s, content |-> c, updated |-> << >> ] :
      << s, c >> \in { << << t >>, << << "b" >> >> >>,
                       << << >>, << t >> >>,
                       << << << >> >>, << t >> >>,
                       << << << " " >> >>, << t >> >> } }

\* The i-th of a document's items and entries: told apart by their titles.
NumberedItem(i) ==
    [ title |-> << Repeat("b", i) >>, link |-> << << "l" >> >>,
      description |-> << << "<", "b", ">", "b" >> >>,
      pubDate |-> << Repeat("t", RSS_DATE_LEN + 1) >> ]
NumberedEntry(i) ==
    [ title |-> << Repeat("t", i) >>, href |-> << >>,
      summary |-> << >>, content |-> << << "t" >> >>,
      updated |-> << Repeat("t", ATOM_DATE_LEN + 1) >> ]
NumberedItems(n) == [ i \in 1..n |-> NumberedItem(i) ]
NumberedEntries(n) == [ i \in 1..n |-> NumberedEntry(i) ]

TextDocs ==
    { Document(<< TextItem(t) >>, << >>) : t \in InputTexts }
    \cup UNION { { Document(<< >>, << e >>) : e \in TextEntries(t) } : t \in InputTexts }
CountDocs ==
    { Document(NumberedItems(n), NumberedEntries(m)) :
        n \in 0..MaxEntries, m \in 0..MaxEntries }
FeedResponses == { NetFail, ParseFail } \cup TextDocs \cup CountDocs

-----------------------------------------------------------------------------
(* The values of the variables an operation does not use *)

FeedIdle   == resp = << >> /\ items = << >>
FilterIdle == fArticles = << >> /\ fKeywords = << >> /\ fMax = 0 /\ fOut = << >>
RateIdle   == primIn = << >> /\ secIn = << >> /\ tiers = << >> /\ mortgage = << >>
GatherIdle ==
    /\ feed = 1 /\ feedLog = << >> /\ news = << >>
    /\ raleigh_articles = << >> /\ construction_articles = << >>
    /\ materials_articles = << >> /\ mortgage_articles = << >>
SendIdle   == sendLog = << >> /\ raised = << >>

-----------------------------------------------------------------------------
(* One call of fetch_rss *)

InitFeed ==
    /\ pc = "fetch_rss"
    /\ resp \in { << r >> : r \in FeedResponses }
    /\ items = << >>
    /\ FilterIdle /\ RateIdle /\ GatherIdle /\ SendIdle

FetchRssCall ==
    /\ pc = "fetch_rss"
    /\ pc' = IF fetch_rss(resp[1]).raises THEN "fetch_rss_raised" ELSE "fetch_rss_done"
    /\ items' = fetch_rss(resp[1]).value
    /\ UNCHANGED << resp, filterVars, rateVars, gatherVars, sendVars >>

NextFeed == FetchRssCall
SpecFeed == InitFeed /\ [][NextFeed]_vars

-----------------------------------------------------------------------------
(* filter_articles: the relevance filter *)

\* kw_lower = [k.lower() for k in keywords]
KwLower(keywords) == [ i \in 1..Len(keywords) |-> Lower(keywords[i]) ]

\* text = (a["title"] + " " + a["desc"]).lower(); any(k in text for k in kw_lower)
MatchesLowered(a, kw_lower) ==
    LET text == Lower(a.title \o << " " >> \o a.desc)
    IN  \E i \in 1..Len(kw_lower) : Contains(text, kw_lower[i])
Matches(a, keywords) == MatchesLowered(a, KwLower(keywords))

\* The two lists the loop fills, each in the order of the input.
Matched(articles, keywords) ==
    LET kw_lower == KwLower(keywords)
    IN  SelectSeq(articles, LAMBDA a : MatchesLowered(a, kw_lower))
Rest(articles, keywords) ==
    LET kw_lower == KwLower(keywords)
    IN  SelectSeq(articles, LAMBDA a : ~MatchesLowered(a, kw_lower))

\* Variants: the two lists joined the other way round, and the matching list alone.
RestFirst(articles, keywords) ==
    Rest(articles, keywords) \o Matched(articles, keywords)
MatchedOnly(articles, keywords) == Matched(articles, keywords)

\* combined = matched + rest
Combined(articles, keywords) ==
    Matched(articles, keywords) \o Rest(articles, keywords)

\* return combined[:max_items]
filter_articles(articles, keywords, max_items) ==
    PySliceTo(Combined(articles, keywords), max_items)

\* The arguments of one call: lists of at most MaxArticles articles of a pool,
\* a keyword list, and max_items from -MaxNegative to MaxArticles + 1.
MaxArticles == 3
MaxNegative == 2

Article(t, d) == [ title |-> t, link |-> << >>, desc |-> d, date |-> << >> ]
ArticlePool ==
    { Article(<< "F", "e", "d", " ", "c", "u", "t" >>, << >>),
      Article(<< "B", "r", "i", "d", "g", "e" >>, << "o", "f", " ", "S", "T", "E", "E", "L" >>),
      Article(<< "B", "r", "i", "d", "g", "e" >>, << >>),
      Article(<< "N", "C" >>, << >>) }
KeywordLists ==
    { << >>,
      << << "f", "e", "d" >> >>,
      << << "l", "u", "m", "b", "e", "r" >>, << "S", "t", "e", "e", "l" >> >>,
      << << "n", "c", " " >> >>,
      << << >> >>,
      MORTGAGE_KEYWORDS }

RECURSIVE Lists(_, _)
Lists(S, n) ==
    IF n = 0 THEN { << >> }
    ELSE Lists(S, n - 1) \cup
         { << x >> \o l : x \in S, l \in { y \in Lists(S, n - 1) : Len(y) = n - 1 } }

InitFilter ==
    /\ pc = "filter_articles"
    /\ fArticles \in Lists(ArticlePool, MaxArticles)
    /\ fKeywords \in KeywordLists
    /\ fMax \in (0 - MaxNegative)..(MaxArticles + 1)
    /\ fOut = << >>
    /\ FeedIdle /\ RateIdle /\ GatherIdle /\ SendIdle

FilterCall ==
    /\ pc = "filter_articles"
    /\ pc' = "filter_articles_done"
    /\ fOut' = filter_articles(fArticles, fKeywords, fMax)
    /\ UNCHANGED << fArticles, fKeywords, fMax, feedVars, rateVars, gatherVars, sendVars >>

NextFilter == FilterCall
SpecFilter == InitFilter /\ [][NextFilter]_vars

-----------------------------------------------------------------------------
(* fetch_mortgage_rate: the rate resolver *)

\* What the primary source may answer: no answer, a body that is not JSON, JSON
\* that is not an object, an object whose "pmms30" is not a list, or an object
\* with or without a "pmms30" list.  An entry of the list is an object with or
\* without its "pmms" and "weeklyendingdate" strings, or no object at all.
PrimaryFailure(kind) == [ status |-> kind, has_key |-> FALSE, pmms30 |-> << >> ]
PrimaryObject(has, list) == [ status |-> "ok", has_key |-> has, pmms30 |-> list ]
RateEntry(p, w) == [ is_object |-> TRUE, pmms |-> p, weeklyendingdate |-> w ]
NotAnObject == [ is_object |-> FALSE, pmms |-> << >>, weeklyendingdate |-> << >> ]

\* latest.get("pmms", "N/A") and latest.get("weeklyendingdate", "")
GetOr(field, default) == IF field = << >> THEN default ELSE field[1]

FREDDIE_SOURCE == "Freddie Mac Primary Mortgage Market Survey"
FREDDIE_LINK   == "https://www.freddiemac.com/pmms"
MND_SOURCE     == "Mortgage News Daily"
MND_LINK       == "https://www.mortgagenewsdaily.com/mortgage-rates/30-year-fixed"
BANKRATE_SOURCE == "Bankrate"
BANKRATE_LINK  == "https://www.bankrate.com/mortgages/30-year-mortgage-rate/"
\* "See source" and the arrow, the arrow being one character.
SEE_SOURCE == << "S", "e", "e", " ", "s", "o", "u", "r", "c", "e", " ", "->" >>
CLICK_NOTE == << "C", "l", "i", "c", "k" >>
\* datetime.now().strftime("%B %d, %Y"): the day of the run.
Today == << "M", "a", "y", " ", "1", "0", ",", " ", "2", "0", "2", "4" >>

\* The body of the first try block, up to its return.
PrimaryTry(p) ==
    LET list   == IF p.has_key THEN p.pmms30 ELSE << RateEntry(<< >>, << >>) >>
        latest == list[Len(list)]
    IN  IF p.status # "ok" \/ list = << >> \/ ~latest.is_object
        THEN [ raises |-> TRUE, value |-> << >> ]
        ELSE [ raises |-> FALSE,
               value  |-> << [ rate   |-> GetOr(latest.pmms, << "N", "/", "A" >>) \o << "%" >>,
                               week   |-> GetOr(latest.weeklyendingdate, << >>),
                               source |-> FREDDIE_SOURCE,
                               link   |-> FREDDIE_LINK,
                               change |-> << >> ] >> ]

IsDigit(c) == c \in { "0", "1", "2", "3", "4", "5", "6", "7", "8", "9" }

\* The number of digits of text from position i on.
RECURSIVE DigitRun(_, _)
DigitRun(text, i) ==
    IF i <= Len(text) /\ IsDigit(text[i]) THEN 1 + DigitRun(text, i + 1) ELSE 0

\* The length of the match of (\d+\.\d+)% at position i without its "%"; 0 when
\* there is none.  \d+ takes every digit there is, and giving one back never
\* helps, as what follows it is no digit.
RateMatchAt(text, i) ==
    LET d1 == DigitRun(text, i)
        d2 == DigitRun(text, i + d1 + 1)
    IN  IF /\ d1 >= 1
           /\ i + d1 <= Len(text) /\ text[i + d1] = "."
           /\ d2 >= 1
           /\ i + d1 + 1 + d2 <= Len(text) /\ text[i + d1 + 1 + d2] = "%"
        THEN d1 + 1 + d2
        ELSE 0

\* re.search(r"(\d+\.\d+)%", text): group 1 of the leftmost match, if any.
RateSearch(text) ==
    IF \E i \in 1..Len(text) : RateMatchAt(text, i) > 0
    THEN LET i == CHOOSE k \in 1..Len(text) :
                    /\ RateMatchAt(text, k) > 0
                    /\ \A j \in 1..(k - 1) : RateMatchAt(text, j) = 0
         IN  << SubSeq(text, i, i + RateMatchAt(text, i) - 1) >>
    ELSE << >>

\* The body of the second try block: the record returned, if one is.
SecondaryTry(r) ==
    LET fetched == fetch_rss(r)
        first   == fetched.value[1]
        match   == RateSearch(first.title \o first.desc)
    IN  IF fetched.raises \/ fetched.value = << >> \/ match = << >>
        THEN << >>
        ELSE << [ rate   |-> match[1] \o << "%" >>,
                  week   |-> Today,
                  source |-> MND_SOURCE,
                  link   |-> MND_LINK,
                  change |-> first.title ] >>

\* The last return.
TertiaryRecord ==
    [ rate   |-> SEE_SOURCE,
      week   |-> Today,
      source |-> BANKRATE_SOURCE,
      link   |-> BANKRATE_LINK,
      change |-> CLICK_NOTE ]

\* A variant that falls from a failed primary tier straight to the last return.
AfterPrimarySkipsSecondary(result) ==
    IF result.raises THEN "rate_tertiary" ELSE "rate_done"

\* Where the resolver goes after the first and after the second try block: a
\* return ends it, an exception or a fall-through leads to the next block.
AfterPrimary(result) == IF result.raises THEN "rate_secondary" ELSE "rate_done"
AfterSecondary(record) == IF record = << >> THEN "rate_tertiary" ELSE "rate_done"

TryPrimary(inputs) ==
    /\ pc = "rate_primary"
    /\ \E p \in inputs :
         /\ primIn' = << p >>
         /\ tiers' = Append(tiers, "primary")
         /\ mortgage' = PrimaryTry(p).value
         /\ pc' = AfterPrimary(PrimaryTry(p))
    /\ UNCHANGED << secIn, feedVars, filterVars, gatherVars, sendVars >>

TrySecondary(inputs) ==
    /\ pc = "rate_secondary"
    /\ \E r \in inputs :
         /\ secIn' = << r >>
         /\ tiers' = Append(tiers, "secondary")
         /\ mortgage' = SecondaryTry(r)
         /\ pc' = AfterSecondary(SecondaryTry(r))
    /\ UNCHANGED << primIn, feedVars, filterVars, gatherVars, sendVars >>

Tertiary ==
    /\ pc = "rate_tertiary"
    /\ tiers' = Append(tiers, "tertiary")
    /\ mortgage' = << TertiaryRecord >>
    /\ pc' = "rate_done"
    /\ UNCHANGED << primIn, secIn, feedVars, filterVars, gatherVars, sendVars >>

\* The answers of the primary source: a history is empty, or holds at most
\* MaxHistory entries, the latest of them any entry and the earlier ones those of
\* the week before.
MaxHistory == 2
EarlierEntry ==
    RateEntry(<< << "7", ".", "0", "1" >> >>,
              << << "2", "0", "2", "4", "-", "0", "5", "-", "0", "2" >> >>)
RateEntries ==
    { RateEntry(p, w) :
        p \in { << >>, << << >> >>, << << "6", ".", "7", "2" >> >> },
        w \in { << >>, << << >> >>,
                << << "2", "0", "2", "4", "-", "0", "5", "-", "0", "9" >> >> } }
    \cup { EarlierEntry, NotAnObject }
Histories ==
    { << >> } \cup
    { [ i \in 1..k |-> EarlierEntry ] \o << latest >> :
        k \in 0..(MaxHistory - 1), latest \in RateEntries }
PrimaryInputs ==
    { PrimaryFailure(k) : k \in { "net_fail", "bad_json", "not_object", "not_list" } }
    \cup { PrimaryObject(FALSE, << >>) }
    \cup { PrimaryObject(TRUE, l) : l \in Histories }

\* The answers of the secondary feed: its first article's title is any text of at
\* most MaxRateLen characters, and the match may run from the title into the summary.
MaxRateLen == 3
RateAlpha == { "6", ".", "%", "b" }
RateTitles == Lists(RateAlpha, MaxRateLen)
RateDescs == { << >>, << "7", "%" >>, << ".", "5", "%" >>, << "b" >> }
RateItem(t, d) ==
    [ title |-> << t >>, link |-> << >>, description |-> << d >>, pubDate |-> << >> ]
RateFeedInputs ==
    { NetFail, ParseFail, Document(<< >>, << >>) }
    \cup { Document(<< RateItem(t, d), RateItem(<< "6", ".", "5", "%" >>, << >>) >>, << >>) :
             t \in RateTitles, d \in RateDescs }
    \cup { Document(<< >>, << [ title |-> << t >>, href |-> << >>, summary |-> << >>,
                              content |-> << >>, updated |-> << >> ] >>) :
             t \in RateTitles }

InitRate ==
    /\ pc = "rate_primary"
    /\ RateIdle /\ FeedIdle /\ FilterIdle /\ GatherIdle /\ SendIdle

NextRate ==
    \/ TryPrimary(PrimaryInputs)
    \/ TrySecondary(RateFeedInputs)
    \/ Tertiary
SpecRate == InitRate /\ [][NextRate]_vars

-----------------------------------------------------------------------------
(* gather_news: the digest assembler *)

\* RSS_FEEDS: the names of the sources of each group, in order.
RALEIGH_FEEDS ==
    << "WRAL - Local News", "News & Observer - Real Estate", "Triangle Business Journal" >>
CONSTRUCTION_FEEDS == << "Construction Dive", "Builder Online", "NAHB Now" >>
MATERIALS_FEEDS == << "AGC - Construction Industry News", "Probuilder - Industry" >>

\* The caps of the sections, and of the mortgage items mined from one feed.
RALEIGH_CAP == 5
CONSTRUCTION_CAP == 4
MATERIALS_CAP == 4
MORTGAGE_CAP == 3
MORTGAGE_PER_FEED == 2

\* for item in items: item["source"] = feed["name"]
Tag(its, name) ==
    [ i \in 1..Len(its) |->
        [ title |-> its[i].title, link |-> its[i].link, desc |-> its[i].desc,
          date |-> its[i].date, source |-> name ] ]

\* One iteration of a loop over the feeds of a group: the feed is fetched, its
\* articles are tagged and appended to the group's list; an exception of
\* fetch_rss would leave gather_news and run.
LoopStep(here, feeds, next, inputs, group_articles, other1, other2, mines) ==
    /\ pc = here
    /\ \E r \in inputs :
         LET fetched == fetch_rss(r)
             its     == Tag(fetched.value, feeds[feed])
         IN  /\ feedLog' = Append(feedLog, [ name |-> feeds[feed], resp |-> r ])
             /\ IF fetched.raises
                THEN /\ pc' = "raised"
                     /\ raised' = << "fetch_rss" >>
                     /\ UNCHANGED << feed, group_articles, mortgage_articles >>
                ELSE /\ group_articles' = group_articles \o its
                     /\ mortgage_articles' =
                          IF mines
                          THEN mortgage_articles \o
                               filter_articles(its, MORTGAGE_KEYWORDS, MORTGAGE_PER_FEED)
                          ELSE mortgage_articles
                     /\ IF feed < Len(feeds)
                        THEN feed' = feed + 1 /\ pc' = here
                        ELSE feed' = 1 /\ pc' = next
                     /\ UNCHANGED raised
    /\ UNCHANGED << other1, other2, news, sendLog, feedVars, filterVars, rateVars >>

\* for feed in RSS_FEEDS["raleigh_news"]
GatherRaleigh(inputs) ==
    LoopStep("gather_raleigh", RALEIGH_FEEDS, "gather_construction", inputs,
             raleigh_articles, construction_articles, materials_articles, FALSE)

\* for feed in RSS_FEEDS["construction_news"], which also mines the mortgage items
GatherConstruction(inputs) ==
    LoopStep("gather_construction", CONSTRUCTION_FEEDS, "gather_materials", inputs,
             construction_articles, raleigh_articles, materials_articles, TRUE)

\* for feed in RSS_FEEDS["materials_news"]
GatherMaterials(inputs) ==
    LoopStep("gather_materials", MATERIALS_FEEDS, "gather_return", inputs,
             materials_articles, raleigh_articles, construction_articles, FALSE)

\* The dictionary returned.
Digest ==
    [ raleigh       |-> filter_articles(raleigh_articles, RALEIGH_KEYWORDS, RALEIGH_CAP),
      construction  |-> filter_articles(construction_articles,
                                        MATERIAL_KEYWORDS \o HOUSING_KEYWORDS,
                                        CONSTRUCTION_CAP),
      materials     |-> filter_articles(materials_articles, MATERIAL_KEYWORDS,
                                        MATERIALS_CAP),
      mortgage_news |-> PySliceTo(mortgage_articles, MORTGAGE_CAP) ]

GatherReturn ==
    /\ pc = "gather_return"
    /\ news' = << Digest >>
    /\ pc' = "gather_done"
    /\ UNCHANGED << feed, feedLog, raleigh_articles, construction_articles,
                    materials_articles, mortgage_articles, sendVars, feedVars,
                    filterVars, rateVars >>

\* What the feeds of a run may answer.
PlainItem(t) ==
    [ title |-> << t >>, link |-> << << "l" >> >>, description |-> << >>, pubDate |-> << >> ]
MarketDoc ==
    Document(<< PlainItem(<< "F", "e", "d", " ", "c", "u", "t" >>),
                PlainItem(<< "C", "a", "r", "y", " ", "h", "o", "m", "e", "s" >>),
                PlainItem(<< "f", "e", "d", " ", "s", "t", "e", "e", "l" >>) >>, << >>)
BridgeDoc ==
    Document(<< >>, << [ title |-> << << "B", "r", "i", "d", "g", "e" >> >>,
                         href |-> << << "l" >> >>, summary |-> << >>,
                         content |-> << >>, updated |-> << >> ] >>)
GatherInputs == { NetFail, ParseFail, MarketDoc, BridgeDoc }
\* The feeds of the first and of the last group answer with three of these.
RaleighInputs == { NetFail, ParseFail, MarketDoc }
MaterialsInputs == { NetFail, ParseFail, BridgeDoc }

InitGather ==
    /\ pc = "gather_raleigh"
    /\ GatherIdle /\ FeedIdle /\ FilterIdle /\ RateIdle /\ SendIdle

NextGather ==
    \/ GatherRaleigh(RaleighInputs)
    \/ GatherConstruction(GatherInputs)
    \/ GatherMaterials(MaterialsInputs)
    \/ GatherReturn
SpecGather == InitGather /\ [][NextGather]_vars

-----------------------------------------------------------------------------
(* run and send_email *)

\* run calls gather_news once fetch_mortgage_rate has returned.
RunGather ==
    /\ pc = "rate_done"
    /\ pc' = "gather_raleigh"
    /\ UNCHANGED << feedVars, filterVars, rateVars, gatherVars, sendVars >>

\* build_email_html renders the record and the digest; it keeps no state.
BuildEmail ==
    /\ pc = "gather_done"
    /\ pc' = "send_email"
    /\ UNCHANGED << feedVars, filterVars, rateVars, gatherVars, sendVars >>

\* What the SMTP session may do: the connection, the login or the sending fails,
\* or the message is sent.
SendOutcomes == { "sent", "connect_error", "auth_error", "smtp_error" }

\* A variant that sends again after an error.
AfterSendRetries(outcome) == IF outcome = "sent" THEN "done" ELSE "send_email"

\* send_email has no handler and run has none: an error leaves both.
AfterSend(outcome) == IF outcome = "sent" THEN "done" ELSE "raised"

SendEmail ==
    /\ pc = "send_email"
    /\ \E o \in SendOutcomes :
         /\ sendLog' = Append(sendLog, o)
         /\ pc' = AfterSend(o)
         /\ raised' = IF pc' = "raised" THEN << o >> ELSE raised
    /\ UNCHANGED << feedVars, filterVars, rateVars, gatherVars >>

\* The answers of the sources in a whole run.
RunPrimaryInputs ==
    { PrimaryFailure("net_fail"),
      PrimaryObject(TRUE, << RateEntry(<< << "6", ".", "7", "2" >> >>,
                                       << << "2", "0", "2", "4", "-", "0", "5", "-", "0", "9" >> >>) >>) }
RunSecondaryInputs ==
    { ParseFail, Document(<< RateItem(<< "6", ".", "5", "%" >>, << >>) >>, << >>) }
RunFeedInputs == { NetFail, ParseFail, MarketDoc }

Init ==
    /\ pc = "rate_primary"
    /\ RateIdle /\ GatherIdle /\ FeedIdle /\ FilterIdle /\ SendIdle

Next ==
    \/ TryPrimary(RunPrimaryInputs)
    \/ TrySecondary(RunSecondaryInputs)
    \/ Tertiary
    \/ RunGather
    \/ GatherRaleigh(RunFeedInputs)
    \/ GatherConstruction(RunFeedInputs)
    \/ GatherMaterials(RunFeedInputs)
    \/ GatherReturn
    \/ BuildEmail
    \/ SendEmail

Spec == Init /\ [][Next]_vars

-----------------------------------------------------------------------------
(* Properties of the rate resolver, under SpecRate *)

Returned == mortgage[1]
LatestEntry(p) == p.pmms30[Len(p.pmms30)]

\* The primary source failed: no document, or one whose latest entry cannot be read.
PrimaryFailed(p) ==
    \/ p.status # "ok"
    \/ p.has_key /\ (p.pmms30 = << >> \/ ~LatestEntry(p).is_object)

\* The secondary source failed: no article, or no percentage in the first one.
SecondaryFailed(r) ==
    \/ r.status # "ok"
    \/ r.items = << >> /\ r.entries = << >>
    \/ LET first == fetch_rss(r).value[1]
       IN  RateSearch(first.title \o first.desc) = << >>

\* C1: when fetch_mortgage_rate has returned, it has returned exactly one record,
\* and the rate, the period label, the source name and the source link of that
\* record are all non-empty, whatever the two sources answered.
RateRecordPopulated ==
    pc = "rate_done" =>
        /\ Len(mortgage) = 1
        /\ Returned.rate # << >>
        /\ Returned.week # << >>
        /\ Returned.source # ""
        /\ Returned.link # ""

TierOrder == << "primary", "secondary", "tertiary" >>
TierSource == << FREDDIE_SOURCE, MND_SOURCE, BANKRATE_SOURCE >>

\* C2: the tiers are attempted in the order primary, secondary, tertiary, each at
\* most once; the secondary only after the primary failed and the tertiary only
\* after both failed; the record returned is that of the last tier attempted,
\* which is the first that succeeded; the placeholder record is returned exactly
\* when both sources failed; nothing is attempted once a record is returned.
TiersInOrder ==
    /\ tiers = SubSeq(TierOrder, 1, Len(tiers))
    /\ Len(tiers) >= 2 => PrimaryFailed(primIn[1])
    /\ Len(tiers) >= 3 => SecondaryFailed(secIn[1])
    /\ pc # "rate_done" => mortgage = << >>
    /\ pc = "rate_done" =>
         /\ Len(mortgage) = 1
         /\ Returned.source = TierSource[Len(tiers)]
         /\ Len(tiers) = 1 => ~PrimaryFailed(primIn[1])
         /\ Len(tiers) = 2 => ~SecondaryFailed(secIn[1])
         /\ (Returned.source = BANKRATE_SOURCE /\ Returned.rate = SEE_SOURCE)
              <=> ( /\ PrimaryFailed(primIn[1])
                    /\ secIn # << >> /\ SecondaryFailed(secIn[1]) )
         /\ ~ENABLED NextRate

\* Both sources failed and the placeholder was returned after three attempts.
TiersInOrderWitness ==
    /\ pc = "rate_done"
    /\ tiers = TierOrder
    /\ primIn[1].status = "bad_json"
    /\ secIn[1].status = "ok" /\ secIn[1].items # << >>
    /\ Returned = TertiaryRecord

\* C9: a record of the primary tier is returned only when the document was
\* fetched and its latest entry holds the rate value and the as-of week, and then
\* the rate is that value followed by "%" and the period label is that week; on
\* a network or parse error the resolver goes on to the secondary tier.
PrimaryRecordOnlyWhenParsed ==
    pc = "rate_done" =>
        /\ Returned.source = FREDDIE_SOURCE =>
             LET p == primIn[1]
             IN  /\ p.status = "ok" /\ p.has_key /\ p.pmms30 # << >>
                 /\ LatestEntry(p).is_object
                 /\ LatestEntry(p).pmms # << >>
                 /\ LatestEntry(p).weeklyendingdate # << >>
                 /\ Returned.rate = LatestEntry(p).pmms[1] \o << "%" >>
                 /\ Returned.week = LatestEntry(p).weeklyendingdate[1]
        /\ PrimaryFailed(primIn[1]) => Len(tiers) >= 2 /\ tiers[2] = "secondary"

-----------------------------------------------------------------------------
(* Properties of fetch_rss, under SpecFeed *)

\* C7: the summary of every article returned is at most 220 characters long and
\* holds neither "<" nor ">".
SummarySanitized ==
    pc = "fetch_rss_done" =>
        \A i \in 1..Len(items) :
            /\ Len(items[i].desc) <= SUMMARY_CAP
            /\ \A j \in 1..Len(items[i].desc) : items[i].desc[j] \notin { "<", ">" }

\* C10: of a parsed document with items, the articles of its first 8 items are
\* returned, in document order; of one without items, those of its first 8 Atom
\* entries; so the two formats are never mixed, no more than 8 articles are
\* returned, and a document with entries and no items gives a non-empty list.
FormatSelection ==
    (pc = "fetch_rss_done" /\ resp[1].status = "ok") =>
        LET doc == resp[1]
            n   == Min(Len(doc.items), ENTRY_CAP)
            m   == Min(Len(doc.entries), ENTRY_CAP)
        IN  /\ Len(items) <= ENTRY_CAP
            /\ doc.items # << >> =>
                 /\ Len(items) = n
                 /\ \A i \in 1..n : items[i] = NormalizeItem(doc.items[i])
            /\ doc.items = << >> =>
                 /\ Len(items) = m
                 /\ \A i \in 1..m : items[i] = NormalizeEntry(doc.entries[i])
            /\ (doc.items = << >> /\ doc.entries # << >>) => items # << >>

\* A document of Atom entries only, more than the cap: the first 8 are returned.
FormatSelectionWitness ==
    /\ pc = "fetch_rss_done"
    /\ resp[1].status = "ok"
    /\ resp[1].items = << >>
    /\ Len(resp[1].entries) > ENTRY_CAP
    /\ Len(items) = ENTRY_CAP
    /\ items[ENTRY_CAP].title = Repeat("t", ENTRY_CAP)

-----------------------------------------------------------------------------
(* Properties of filter_articles, under SpecFilter *)

MatchIdx == { i \in 1..Len(fArticles) : Matches(fArticles[i], fKeywords) }
RestIdx  == { i \in 1..Len(fArticles) : ~Matches(fArticles[i], fKeywords) }
\* The k-th smallest index of S.
Nth(S, k) == CHOOSE i \in S : Cardinality({ j \in S : j <= i }) = k
\* The matching articles in their input order, then the others in theirs.
Partitioned ==
    [ k \in 1..Len(fArticles) |->
        IF k <= Cardinality(MatchIdx)
        THEN fArticles[Nth(MatchIdx, k)]
        ELSE fArticles[Nth(RestIdx, k - Cardinality(MatchIdx))] ]

StablePartitionCut ==
    /\ Len(fOut) <= fMax
    /\ fOut = SubSeq(Partitioned, 1, Min(fMax, Len(fArticles)))
    /\ \A i \in 1..Len(fOut) : \A j \in (i + 1)..Len(fOut) :
         ~(~Matches(fOut[i], fKeywords) /\ Matches(fOut[j], fKeywords))

Count(s, a) == Cardinality({ i \in 1..Len(s) : s[i] = a })

-----------------------------------------------------------------------------
(* Properties of gather_news, under SpecGather *)

ALL_FEEDS == RALEIGH_FEEDS \o CONSTRUCTION_FEEDS \o MATERIALS_FEEDS
Names(feeds) == { feeds[i] : i \in 1..Len(feeds) }

\* The article is one of those of a feed of the group that answered with a
\* document, as that feed's articles were normalised and tagged.
FromGroup(article, feeds) ==
    \E k \in 1..Len(feedLog) :
        /\ feedLog[k].name = article.source
        /\ feedLog[k].name \in Names(feeds)
        /\ feedLog[k].resp.status = "ok"
        /\ LET tagged == Tag(ParsedItems(feedLog[k].resp), feedLog[k].name)
           IN  \E i \in 1..Len(tagged) : tagged[i] = article

SectionFromGroup(section, feeds) ==
    \A i \in 1..Len(section) : FromGroup(section[i], feeds)

\* C3: no fetch raises and a failed one returns the empty list; the feeds are
\* fetched in the configured order, each once, whatever the earlier ones
\* answered, and the assembler is never stopped before it returns; the digest
\* returned holds in each section only articles of the feeds of the section's
\* group that answered.
FeedIsolation ==
    /\ pc # "raised" /\ raised = << >>
    /\ Len(feedLog) <= Len(ALL_FEEDS)
    /\ \A k \in 1..Len(feedLog) :
         /\ feedLog[k].name = ALL_FEEDS[k]
         /\ feedLog[k].resp.status # "ok" =>
              fetch_rss(feedLog[k].resp) = [ raises |-> FALSE, value |-> << >> ]
    /\ pc \in { "gather_raleigh", "gather_construction", "gather_materials",
                "gather_return", "gather_done" }
    /\ pc = "gather_raleigh" => feed \in 1..Len(RALEIGH_FEEDS)
    /\ pc = "gather_construction" => feed \in 1..Len(CONSTRUCTION_FEEDS)
    /\ pc = "gather_materials" => feed \in 1..Len(MATERIALS_FEEDS)
    /\ pc \in { "gather_return", "gather_done" } => Len(feedLog) = Len(ALL_FEEDS)
    /\ pc = "gather_done" =>
         /\ Len(news) = 1
         /\ SectionFromGroup(news[1].raleigh, RALEIGH_FEEDS)
         /\ SectionFromGroup(news[1].construction, CONSTRUCTION_FEEDS)
         /\ SectionFromGroup(news[1].materials, MATERIALS_FEEDS)

\* The first feed timed out, the second was malformed, the third answered, and
\* both feeds of the materials group failed: the Raleigh section holds articles
\* of the third feed and the materials section is empty.
FeedIsolationWitness ==
    /\ pc = "gather_done"
    /\ feedLog[1].resp = NetFail
    /\ feedLog[2].resp = ParseFail
    /\ feedLog[3].resp = MarketDoc
    /\ feedLog[4].resp = BridgeDoc
    /\ feedLog[7].resp = ParseFail /\ feedLog[8].resp = NetFail
    /\ Len(news[1].raleigh) = 3
    /\ \A i \in 1..3 : news[1].raleigh[i].source = RALEIGH_FEEDS[3]
    /\ news[1].materials = << >>

\* C6: the mortgage bucket holds only articles that match a mortgage keyword,
\* taken from the construction feeds in the order fetched, at most 2 of one
\* feed and at most 3 in all, and is the accumulated list cut to 3.
MortgageBucketRelevant ==
    pc = "gather_done" =>
        LET bucket == news[1].mortgage_news
        IN  /\ Len(bucket) <= MORTGAGE_CAP
            /\ bucket = PySliceTo(mortgage_articles, MORTGAGE_CAP)
            /\ SectionFromGroup(bucket, CONSTRUCTION_FEEDS)
            /\ \A n \in Names(CONSTRUCTION_FEEDS) :
                 Cardinality({ i \in 1..Len(bucket) : bucket[i].source = n })
                    <= MORTGAGE_PER_FEED
            /\ \A i \in 1..Len(bucket) : Matches(bucket[i], MORTGAGE_KEYWORDS)

-----------------------------------------------------------------------------
(* Properties of run, under Spec *)

RunEnded == pc \in { "done", "raised" }

\* C8: a run makes at most one delivery attempt, and only once the rate record
\* and the digest are there; a failed attempt ends the run with its error, a
\* successful one ends it without; a run never ends or stops before its
\* attempt, also when every fetch failed.
SingleDeliveryAttempt ==
    /\ Len(sendLog) <= 1
    /\ sendLog # << >> => Len(mortgage) = 1 /\ Len(news) = 1 /\ RunEnded
    /\ RunEnded => Len(sendLog) = 1
    /\ pc = "done" => sendLog = << "sent" >> /\ raised = << >>
    /\ pc = "raised" => sendLog[1] # "sent" /\ raised = sendLog
    /\ ~RunEnded => ENABLED Next

\* Every source failed, the placeholder rate and an empty digest were built, and
\* the one delivery attempt failed at the login: the run ended with that error.
SingleDeliveryAttemptWitness ==
    /\ pc = "raised"
    /\ raised = << "auth_error" >>
    /\ sendLog = << "auth_error" >>
    /\ mortgage = << TertiaryRecord >>
    /\ \A k \in 1..Len(feedLog) : feedLog[k].resp.status # "ok"
    /\ news[1].raleigh = << >> /\ news[1].construction = << >>
    /\ news[1].materials = << >> /\ news[1].mortgage_news = << >>
====
